---- MODULE Spec2Model ----
(***************************************************************************)
(* Subscription ledger of PrimeDrive (backend/main.py): the payment        *)
(* transaction state machine, subscription activation and expiry           *)
(* enforcement, over the users and payment_transactions tables.            *)
(*                                                                         *)
(* Time is counted in whole days.  A timestamp column holds an integer     *)
(* day, or NULL.  datetime.isoformat() / datetime.fromisoformat() carry an *)
(* instant to and from the store unchanged at this resolution.             *)
(*                                                                         *)
(* A query that ends in .single() is read as the handlers read it: no      *)
(* matching row gives result.data = None.                                  *)
(*                                                                         *)
(* Columns the handlers write and nothing reads (orange_money_pay_token,   *)
(* orange_money_transaction_id, admin_notes) are left out of the rows.     *)
(*                                                                         *)
(* Five specifications share the variables:                                *)
(*   Spec       the request handlers, each one atomic step, at one instant *)
(*              (gateway and manual payments, gateway failures);           *)
(*   ClockSpec  the handlers on gateway payments, the expiry enforcement,  *)
(*              the stale sweep and the clock, each one atomic step;       *)
(*   EnvSpec    ClockSpec for one paid tier, with refunds made outside the *)
(*              ledger;                                                    *)
(*   ConcSpec   two server processes on the one store run the handlers of  *)
(*              a (user, tier) pair one store round trip (one .execute())  *)
(*              at a time, interleaved;                                    *)
(*   RenewSpec  ConcSpec for initiate and admin approval only, on more     *)
(*              transactions.                                              *)
(***************************************************************************)
EXTENDS Integers, Sequences, FiniteSets, TLC

VARIABLES
    now,        \* current day, datetime.now(timezone.utc)
    users,      \* users table: user id -> [current_tier, subscription_expires_at]
    txns,       \* payment_transactions table: sequence of rows, row i has id i
    actCount,   \* history: per transaction id, how often activate_subscription wrote for it
    actLog,     \* history (ConcSpec): the expiry each activation read, as [t, read]
    pc,         \* ConcSpec: per worker, the next round trip of its handler
    loc,        \* ConcSpec: per worker, the handler's local variables
    listings    \* car_listings table: sequence of rows [user_id, status], row i has id i

vars == <<now, users, txns, actCount, actLog, pc, loc, listings>>

-----------------------------------------------------------------------------
(* Bounds of the exploration: rows in payment_transactions *)

MaxTxns == 2
MaxClockTxns == 2
MaxConcTxns == 2
MaxRenewTxns == 3
MaxRefTxns == 2
MaxEnforceTxns == 2
MaxListTxns == 1

(* Bounds of the exploration: rows in car_listings *)

MaxListings == 4

(* Program constants *)

DefaultDuration == 30
StaleWindow == 1

NULL == -1
NoRef == <<>>

Users == {"u1", "u2"}
Payers == {"u1"}
Workers == {"w1", "w2"}

Tiers == {"free", "basic", "premium"}

TierPrice(tier) ==
    CASE tier = "free" -> 0
      [] tier = "basic" -> 50
      [] tier = "premium" -> 200

Methods == {"orange_money", "manual"}

(* The instants at which the clock is observed *)
Days == {0, DefaultDuration + 1}

Terminal == {"completed", "failed", "refunded"}
NonTerminal == {"pending", "awaiting_verification"}

(* str.upper() on the status strings the gateway is taken to send: the    *)
(* strings below that are not in upper case, each with its upper case      *)
(* str.upper() taken for the identity *)
UpperAsIs(s) == s

Upper(s) ==
    CASE s = "success" -> "SUCCESS"
      [] s = "Success" -> "SUCCESS"
      [] s = "Successfull" -> "SUCCESSFULL"
      [] s = "successfull" -> "SUCCESSFULL"
      [] s = "failed" -> "FAILED"
      [] s = "pending" -> "PENDING"
      [] OTHER -> s

SuccessStatuses == {"SUCCESS", "success", "Success", "SUCCESSFULL", "Successfull", "successfull"}
OtherStatuses == {"FAILED", "failed", "PENDING", "pending", "INITIATED", "SUCCESSFUL", "UNKNOWN"}

(* Outcomes of OrangeMoneyClient.check_transaction_status: a status string, *)
(* or TOKEN_ERROR when _get_access_token raises                             *)
PollOutcomes == {"success", "EXPIRED", "UNKNOWN", "TOKEN_ERROR"}
ClockPollOutcomes == {"success", "EXPIRED", "UNKNOWN"}
CallbackStatuses == {"Successfull", "FAILED"}
PaidPrices == {TierPrice(t) : t \in Tiers \ {"free"}}
CallbackAmounts == PaidPrices \cup {TierPrice("basic") - 1}

Ids == DOMAIN txns

-----------------------------------------------------------------------------
(* The store as a value, so that a handler is a function of it *)

Store == [txns |-> txns, users |-> users, actCount |-> actCount]

SetStatus(S, t, fields) ==
    [S EXCEPT !.txns[t] = [f \in DOMAIN @ |-> IF f \in DOMAIN fields THEN fields[f] ELSE @[f]]]

(* NewExpires without the stacking branch *)
NewExpiresFromNow(current_expires, at) == at + DefaultDuration

(* activate_subscription: the expiry it writes, from the expiry it read *)
NewExpires(current_expires, at) ==
    IF current_expires # NULL
    THEN IF current_expires > at
         THEN current_expires + DefaultDuration
         ELSE at + DefaultDuration
    ELSE at + DefaultDuration

ActivateSubscription(S, user_id, tier_id, t, at) ==
    LET current_expires == S.users[user_id].subscription_expires_at
    IN  [S EXCEPT !.users[user_id] = [current_tier |-> tier_id,
                                      subscription_expires_at |-> NewExpires(current_expires, at)],
                  !.actCount[t] = @ + 1]

-----------------------------------------------------------------------------
(* initiate_subscription *)

(* PendingFor without the tier filter *)
PendingForUser(S, u, tier) ==
    {i \in DOMAIN S.txns : /\ S.txns[i].user_id = u
                           /\ S.txns[i].status = "pending"}

PendingFor(S, u, tier) ==
    {i \in DOMAIN S.txns : /\ S.txns[i].user_id = u
                           /\ S.txns[i].tier_id = tier
                           /\ S.txns[i].status = "pending"}

First(ids) == CHOOSE i \in ids : \A j \in ids : i <= j

(* NewRow that keeps the gateway method when the gateway failed *)
NewRowKeepingMethod(u, tier, method, gw_ok, id, at) ==
    [user_id |-> u,
     tier_id |-> tier,
     amount_pula |-> TierPrice(tier),
     payment_method |-> method,
     transaction_reference |-> <<at, id>>,
     status |-> "pending",
     orange_money_order_id |-> IF method = "orange_money" /\ gw_ok THEN <<at, id>> ELSE NoRef,
     orange_money_status |-> "none",
     user_payment_reference |-> "none",
     created_at |-> at,
     completed_at |-> NULL]

NewRow(u, tier, method, gw_ok, id, at) ==
    LET txn_ref == <<at, id>>
        viaGateway == method = "orange_money" /\ gw_ok
    IN  [user_id |-> u,
         tier_id |-> tier,
         amount_pula |-> TierPrice(tier),
         payment_method |-> IF method = "orange_money" /\ ~gw_ok THEN "manual" ELSE method,
         transaction_reference |-> txn_ref,
         status |-> "pending",
         orange_money_order_id |-> IF viaGateway THEN txn_ref ELSE NoRef,
         orange_money_status |-> "none",
         user_payment_reference |-> "none",
         created_at |-> at,
         completed_at |-> NULL]

InsertRow(S, row) ==
    [S EXCEPT !.txns = Append(@, row),
              !.actCount = Append(@, 0)]

(* InitiateSubscription without the test on the price *)
InitiateAnyPrice(S, u, tier, method, gw_ok, at) ==
    IF PendingFor(S, u, tier) # {}
    THEN [store |-> S, resp |-> "pending", tid |-> First(PendingFor(S, u, tier)),
          url |-> FALSE, gateway |-> FALSE]
    ELSE [store |-> InsertRow(S, NewRow(u, tier, method, gw_ok, Len(S.txns) + 1, at)),
          resp |-> "pending",
          tid |-> Len(S.txns) + 1,
          url |-> (method = "orange_money" /\ gw_ok),
          gateway |-> (method = "orange_money")]

(* gateway: whether orange_money.initiate_payment was called *)
InitiateSubscription(S, u, tier, method, gw_ok, at) ==
    IF TierPrice(tier) = 0
    THEN [store |-> S, resp |-> "invalid_request", tid |-> 0, url |-> FALSE, gateway |-> FALSE]
    ELSE IF PendingFor(S, u, tier) # {}
    THEN [store |-> S, resp |-> "pending", tid |-> First(PendingFor(S, u, tier)),
          url |-> FALSE, gateway |-> FALSE]
    ELSE [store |-> InsertRow(S, NewRow(u, tier, method, gw_ok, Len(S.txns) + 1, at)),
          resp |-> "pending",
          tid |-> Len(S.txns) + 1,
          url |-> (method = "orange_money" /\ gw_ok),
          gateway |-> (method = "orange_money")]

(* confirm_payment *)

(* ConfirmFound without the status filter *)
ConfirmFoundAnyStatus(S, u, t) ==
    /\ t \in DOMAIN S.txns
    /\ S.txns[t].user_id = u

ConfirmFound(S, u, t) ==
    /\ t \in DOMAIN S.txns
    /\ S.txns[t].user_id = u
    /\ S.txns[t].status = "pending"

ConfirmUpdate ==
    [user_payment_reference |-> "receipt", status |-> "awaiting_verification"]

(* ConfirmPayment that grants the tier at once *)
ConfirmAndActivate(S, u, t) ==
    IF ~ConfirmFound(S, u, t)
    THEN [store |-> S, resp |-> "not_found"]
    ELSE [store |-> ActivateSubscription(SetStatus(S, t, ConfirmUpdate),
                                         u, S.txns[t].tier_id, t, 0),
          resp |-> "awaiting_verification"]

ConfirmPayment(S, u, t) ==
    IF ~ConfirmFound(S, u, t)
    THEN [store |-> S, resp |-> "not_found"]
    ELSE [store |-> SetStatus(S, t, ConfirmUpdate), resp |-> "awaiting_verification"]

(* check_payment_status *)

(* CheckFound without the owner filter *)
CheckFoundAnyUser(S, u, t) == t \in DOMAIN S.txns

CheckFound(S, u, t) ==
    /\ t \in DOMAIN S.txns
    /\ S.txns[t].user_id = u

(* Polls whatever the row's status *)
PollsAnyStatus(row) ==
    /\ row.payment_method = "orange_money"
    /\ row.orange_money_order_id # NoRef

(* Polls for every row not yet terminal *)
PollsOpen(row) ==
    /\ row.payment_method = "orange_money"
    /\ row.status \in {"pending", "awaiting_verification"}
    /\ row.orange_money_order_id # NoRef

Polls(row) ==
    /\ row.payment_method = "orange_money"
    /\ row.status = "pending"
    /\ row.orange_money_order_id # NoRef

PollBranch(poll) ==
    LET remote_status == Upper(poll)
    IN  IF remote_status = "SUCCESS" THEN "complete"
        ELSE IF remote_status \in {"FAILED", "EXPIRED", "CANCELLED"} THEN "fail"
        ELSE "none"

(* PollUpdate without the completion stamp *)
PollUpdateNoStamp(poll, at) ==
    IF PollBranch(poll) = "complete"
    THEN [status |-> "completed", orange_money_status |-> "SUCCESS"]
    ELSE [status |-> "failed", orange_money_status |-> Upper(poll)]

PollUpdate(poll, at) ==
    IF PollBranch(poll) = "complete"
    THEN [status |-> "completed", completed_at |-> at, orange_money_status |-> "SUCCESS"]
    ELSE [status |-> "failed", orange_money_status |-> Upper(poll)]

CheckPaymentStatus(S, u, t, poll, at) ==
    IF ~CheckFound(S, u, t)
    THEN [store |-> S, resp |-> "not_found", polled |-> FALSE]
    ELSE LET txn == S.txns[t] IN
         IF ~Polls(txn)
         THEN [store |-> S, resp |-> txn.status, polled |-> FALSE]
         ELSE IF poll = "TOKEN_ERROR"
         THEN [store |-> S, resp |-> "gateway_unavailable", polled |-> FALSE]
         ELSE IF PollBranch(poll) = "complete"
         THEN [store |-> ActivateSubscription(SetStatus(S, t, PollUpdate(poll, at)),
                                              u, txn.tier_id, t, at),
               resp |-> "completed", polled |-> TRUE]
         ELSE IF PollBranch(poll) = "fail"
         THEN [store |-> SetStatus(S, t, PollUpdate(poll, at)),
               resp |-> "failed", polled |-> TRUE]
         ELSE [store |-> S, resp |-> txn.status, polled |-> TRUE]

(* orange_money_webhook *)

ByOrderId(S, order_id) ==
    {i \in DOMAIN S.txns : S.txns[i].orange_money_order_id = order_id}

(* WebhookBranch without the guard on terminal rows *)
WebhookBranchUnguarded(row, cb_status, cb_amount) ==
    IF cb_amount # row.amount_pula THEN "amount_mismatch"
    ELSE IF Upper(cb_status) \in {"SUCCESS", "SUCCESSFULL"} THEN "success"
    ELSE "failure"

(* WebhookBranch with the status looked at before the amount *)
WebhookBranchStatusFirst(row, cb_status, cb_amount) ==
    IF row.status \in {"completed", "failed", "refunded"} THEN "already_processed"
    ELSE IF Upper(cb_status) \in {"SUCCESS", "SUCCESSFULL"} THEN "success"
    ELSE IF cb_amount # row.amount_pula THEN "amount_mismatch"
    ELSE "failure"

WebhookBranch(row, cb_status, cb_amount) ==
    IF row.status \in {"completed", "failed", "refunded"} THEN "already_processed"
    ELSE IF cb_amount # row.amount_pula THEN "amount_mismatch"
    ELSE IF Upper(cb_status) \in {"SUCCESS", "SUCCESSFULL"} THEN "success"
    ELSE "failure"

WebhookUpdate(branch, cb_status, at) ==
    IF branch = "amount_mismatch"
    THEN [status |-> "failed", orange_money_status |-> "AMOUNT_MISMATCH"]
    ELSE IF branch = "success"
    THEN [status |-> "completed", completed_at |-> at, orange_money_status |-> cb_status]
    ELSE [status |-> "failed", orange_money_status |-> cb_status]

OrangeMoneyWebhook(S, order_id, cb_status, cb_amount, at) ==
    IF order_id = NoRef \/ ByOrderId(S, order_id) = {}
    THEN [store |-> S, resp |-> "not_found"]
    ELSE LET t == First(ByOrderId(S, order_id))
             transaction == S.txns[t]
             branch == WebhookBranch(transaction, cb_status, cb_amount)
         IN  IF branch = "already_processed"
             THEN [store |-> S, resp |-> "already_processed"]
             ELSE IF branch = "amount_mismatch"
             THEN [store |-> SetStatus(S, t, WebhookUpdate(branch, cb_status, at)),
                   resp |-> "amount_mismatch"]
             ELSE IF branch = "success"
             THEN [store |-> ActivateSubscription(
                                SetStatus(S, t, WebhookUpdate(branch, cb_status, at)),
                                transaction.user_id, transaction.tier_id, t, at),
                   resp |-> "processed"]
             ELSE [store |-> SetStatus(S, t, WebhookUpdate(branch, cb_status, at)),
                   resp |-> "processed"]

(* admin_approve_payment, admin_reject_payment *)

(* AdminFound without the status filter *)
AdminFoundAnyStatus(S, t) == t \in DOMAIN S.txns

(* AdminFound that leaves out failed rows only *)
AdminFoundUnlessFailed(S, t) ==
    /\ t \in DOMAIN S.txns
    /\ S.txns[t].status # "failed"

AdminFound(S, t) ==
    /\ t \in DOMAIN S.txns
    /\ S.txns[t].status \in {"pending", "awaiting_verification"}

(* ApproveUpdate without the completion stamp *)
ApproveUpdateNoStamp(at) == [status |-> "completed"]

ApproveUpdate(at) == [status |-> "completed", completed_at |-> at]

RejectUpdate == [status |-> "failed"]

AdminApprovePayment(S, t, at) ==
    IF ~AdminFound(S, t)
    THEN [store |-> S, resp |-> "not_found"]
    ELSE [store |-> ActivateSubscription(SetStatus(S, t, ApproveUpdate(at)),
                                         S.txns[t].user_id, S.txns[t].tier_id, t, at),
          resp |-> "completed"]

(* AdminRejectPayment that activates the subscription all the same *)
RejectAndActivate(S, t) ==
    IF ~AdminFound(S, t)
    THEN [store |-> S, resp |-> "not_found"]
    ELSE [store |-> ActivateSubscription(SetStatus(S, t, RejectUpdate),
                                         S.txns[t].user_id, S.txns[t].tier_id, t, 0),
          resp |-> "failed"]

AdminRejectPayment(S, t) ==
    IF ~AdminFound(S, t)
    THEN [store |-> S, resp |-> "not_found"]
    ELSE [store |-> SetStatus(S, t, RejectUpdate), resp |-> "failed"]

(* check_and_enforce_subscription *)

(* Expired with an expiry that ends at its own instant *)
ExpiredInclusive(user_data, at) ==
    /\ user_data.current_tier # "free"
    /\ user_data.subscription_expires_at # NULL
    /\ at >= user_data.subscription_expires_at

Expired(user_data, at) ==
    /\ user_data.current_tier # "free"
    /\ user_data.subscription_expires_at # NULL
    /\ at > user_data.subscription_expires_at

(* CheckAndEnforceSubscription with a downgrade that clears the expiry and keeps the tier *)
EnforceKeepingTier(S, u, at) ==
    IF Expired(S.users[u], at)
    THEN [store |-> [S EXCEPT !.users[u].subscription_expires_at = NULL],
          tier |-> "free", is_active |-> TRUE, expires_at |-> NULL, was_downgraded |-> TRUE]
    ELSE [store |-> S,
          tier |-> S.users[u].current_tier,
          is_active |-> TRUE,
          expires_at |-> IF S.users[u].current_tier = "free"
                         THEN NULL ELSE S.users[u].subscription_expires_at,
          was_downgraded |-> FALSE]

(* CheckAndEnforceSubscription with a downgrade that keeps the old expiry *)
EnforceKeepingExpiry(S, u, at) ==
    IF Expired(S.users[u], at)
    THEN [store |-> [S EXCEPT !.users[u].current_tier = "free"],
          tier |-> "free", is_active |-> TRUE, expires_at |-> NULL, was_downgraded |-> TRUE]
    ELSE [store |-> S,
          tier |-> S.users[u].current_tier,
          is_active |-> TRUE,
          expires_at |-> IF S.users[u].current_tier = "free"
                         THEN NULL ELSE S.users[u].subscription_expires_at,
          was_downgraded |-> FALSE]

CheckAndEnforceSubscription(S, u, at) ==
    IF Expired(S.users[u], at)
    THEN [store |-> [S EXCEPT !.users[u] = [current_tier |-> "free",
                                            subscription_expires_at |-> NULL]],
          tier |-> "free", is_active |-> TRUE, expires_at |-> NULL, was_downgraded |-> TRUE]
    ELSE [store |-> S,
          tier |-> S.users[u].current_tier,
          is_active |-> TRUE,
          expires_at |-> IF S.users[u].current_tier = "free"
                         THEN NULL ELSE S.users[u].subscription_expires_at,
          was_downgraded |-> FALSE]

(* expire_stale_payments, the stored procedure behind cron_expire_stale_payments *)

(* Stale that no row ever is *)
StaleNever(row, at) == FALSE

(* Stale for every row still open *)
StaleOpen(row, at) ==
    row.status \in {"pending", "awaiting_verification"} /\ at - row.created_at > StaleWindow

Stale(row, at) == row.status = "pending" /\ at - row.created_at > StaleWindow

ExpireStalePayments(S, at) ==
    [store |-> [S EXCEPT !.txns = [i \in DOMAIN @ |->
                                     IF Stale(@[i], at) THEN [@[i] EXCEPT !.status = "failed"]
                                     ELSE @[i]]],
     count |-> Cardinality({i \in DOMAIN S.txns : Stale(S.txns[i], at)})]

-----------------------------------------------------------------------------
Init ==
    /\ now = 0
    /\ users = [u \in Users |-> [current_tier |-> "free", subscription_expires_at |-> NULL]]
    /\ txns = <<>>
    /\ actCount = <<>>
    /\ actLog = {}
    /\ pc = [w \in Workers |-> "idle"]
    /\ loc = [w \in Workers |-> <<>>]
    /\ listings = <<>>

Apply(S) ==
    /\ txns' = S.txns
    /\ users' = S.users
    /\ actCount' = S.actCount
    /\ UNCHANGED <<listings, now, actLog, pc, loc>>

(* Requests name a transaction id: one of the rows, or one that does not exist *)
TxnIds == 1..(Len(txns) + 1)
OrderIds == {txns[i].transaction_reference : i \in Ids} \cup {<<0, 0>>}

InitiateBy(payers, methods, gateway, cap) ==
    \E u \in payers, tier \in Tiers, method \in methods, gw_ok \in gateway :
        LET R == InitiateSubscription(Store, u, tier, method, gw_ok, now)
        IN  /\ Len(R.store.txns) <= cap
            /\ Apply(R.store)

ConfirmBy(callers, ids) ==
    \E u \in callers, t \in ids : Apply(ConfirmPayment(Store, u, t).store)

CheckStatusBy(callers, ids, polls) ==
    \E u \in callers, t \in ids, poll \in polls :
        Apply(CheckPaymentStatus(Store, u, t, poll, now).store)

HandleCallbackOf(orders, amounts) ==
    \E order_id \in orders, cb_status \in CallbackStatuses, cb_amount \in amounts :
        Apply(OrangeMoneyWebhook(Store, order_id, cb_status, cb_amount, now).store)

AdminApproveOf(ids) ==
    \E t \in ids : Apply(AdminApprovePayment(Store, t, now).store)

AdminRejectOf(ids) ==
    \E t \in ids : Apply(AdminRejectPayment(Store, t).store)

-----------------------------------------------------------------------------
(* Spec: the request handlers at one instant.  u1 pays; u1 and u2 call. *)

Initiate == InitiateBy(Payers, Methods, BOOLEAN, MaxTxns)

Confirm == ConfirmBy(Users, TxnIds)

CheckStatus == CheckStatusBy(Users, TxnIds, PollOutcomes)

HandleCallback == HandleCallbackOf(OrderIds, CallbackAmounts)

AdminApprove == AdminApproveOf(TxnIds)

AdminReject == AdminRejectOf(TxnIds)

Next ==
    \/ Initiate
    \/ Confirm
    \/ CheckStatus
    \/ HandleCallback
    \/ AdminApprove
    \/ AdminReject

Spec == Init /\ [][Next]_vars

-----------------------------------------------------------------------------
(* ClockSpec: the handlers on gateway payments of u1, the expiry           *)
(* enforcement, the stale sweep and the clock.                             *)

ClockInitiate == InitiateBy(Payers, {"orange_money"}, {TRUE}, MaxClockTxns)

ClockConfirm == ConfirmBy(Payers, Ids)

ClockCheckStatus == CheckStatusBy(Payers, Ids, ClockPollOutcomes)

ClockHandleCallback ==
    HandleCallbackOf({txns[i].orange_money_order_id : i \in Ids}, PaidPrices)

ClockAdminApprove == AdminApproveOf(Ids)

ClockAdminReject == AdminRejectOf(Ids)

CheckAndEnforce ==
    \E u \in Users : Apply(CheckAndEnforceSubscription(Store, u, now).store)

Sweep ==
    Apply(ExpireStalePayments(Store, now).store)

Advance ==
    /\ \E d \in Days : d > now /\ now' = d
    /\ UNCHANGED <<listings, users, txns, actCount, actLog, pc, loc>>

ClockNext ==
    \/ ClockInitiate
    \/ ClockConfirm
    \/ ClockCheckStatus
    \/ ClockHandleCallback
    \/ ClockAdminApprove
    \/ ClockAdminReject
    \/ CheckAndEnforce
    \/ Sweep
    \/ Advance

ClockSpec == Init /\ [][ClockNext]_vars

-----------------------------------------------------------------------------
(* EnvSpec: ClockSpec on payments for one paid tier, with refunds made     *)
(* outside the ledger.                                                     *)

EnvInitiate ==
    \E u \in Payers, tier \in {"free", "basic"} :
        LET R == InitiateSubscription(Store, u, tier, "orange_money", TRUE, now)
        IN  /\ Len(R.store.txns) <= MaxClockTxns
            /\ Apply(R.store)

(* A payment refunded outside the ledger: no handler writes this status *)
RefundOf(t) ==
    /\ txns[t].status = "completed"
    /\ txns' = [txns EXCEPT ![t].status = "refunded"]
    /\ UNCHANGED <<listings, now, users, actCount, actLog, pc, loc>>

Refund == \E t \in Ids : RefundOf(t)

EnvNext ==
    \/ EnvInitiate
    \/ ClockConfirm
    \/ ClockCheckStatus
    \/ ClockHandleCallback
    \/ ClockAdminApprove
    \/ ClockAdminReject
    \/ CheckAndEnforce
    \/ Sweep
    \/ Advance
    \/ Refund

EnvSpec == Init /\ [][EnvNext]_vars

(* EnvSpec with a sweep that keeps being triggered and a clock that keeps  *)
(* moving, up to the last of the instants observed                         *)
LiveSpec == Init /\ [][EnvNext]_vars /\ WF_vars(Sweep) /\ WF_vars(Advance)

-----------------------------------------------------------------------------
(* ConcSpec: two workers serve requests of u1 for the basic tier, paid     *)
(* through the gateway.  Each step is one round trip to the store; the     *)
(* handler's variables live in loc between its round trips.                *)

ConcUser == "u1"
ConcTier == "basic"
ConcPolls == {"success", "EXPIRED"}
ConcCallbackStatuses == {"Successfull"}

Begin(w, next, locals) ==
    /\ pc[w] = "idle"
    /\ pc' = [pc EXCEPT ![w] = next]
    /\ loc' = [loc EXCEPT ![w] = locals]
    /\ UNCHANGED <<listings, now, users, txns, actCount, actLog>>

(* initiate_subscription: the lookup of a pending row, then the insert *)
ConcInitiateLookup(w) ==
    /\ Len(txns) < MaxConcTxns
    /\ PendingFor(Store, ConcUser, ConcTier) = {}
    /\ Begin(w, "insert", [u |-> ConcUser, tier |-> ConcTier])

ConcInitiateInsertRow(w) ==
    /\ pc[w] = "insert"
    /\ txns' = Append(txns, NewRow(loc[w].u, loc[w].tier, "orange_money", TRUE,
                                    Len(txns) + 1, now))
    /\ actCount' = Append(actCount, 0)
    /\ pc' = [pc EXCEPT ![w] = "idle"]
    /\ loc' = [loc EXCEPT ![w] = <<>>]
    /\ UNCHANGED <<listings, now, users, actLog>>

ConcInitiateInsert(w) ==
    /\ Len(txns) < MaxConcTxns
    /\ ConcInitiateInsertRow(w)

(* The select of each handler: it decides the update the handler will send *)
Decided(t, fields, activate, u) ==
    [t |-> t, fields |-> fields, activate |-> activate, u |-> u,
     tier |-> txns[t].tier_id, current_expires |-> NULL]

ConcConfirmSelect(w) ==
    \E t \in Ids :
        /\ ConfirmFound(Store, ConcUser, t)
        /\ Begin(w, "update", Decided(t, ConfirmUpdate, FALSE, ConcUser))

ConcCheckSelect(w) ==
    \E t \in Ids, poll \in ConcPolls :
        /\ CheckFound(Store, ConcUser, t)
        /\ Polls(txns[t])
        /\ PollBranch(poll) # "none"
        /\ Begin(w, "update",
                 Decided(t, PollUpdate(poll, now), PollBranch(poll) = "complete", ConcUser))

ConcWebhookSelect(w) ==
    \E t \in Ids, cb_status \in ConcCallbackStatuses, cb_amount \in PaidPrices :
        LET branch == WebhookBranch(txns[t], cb_status, cb_amount)
        IN  /\ ByOrderId(Store, txns[t].orange_money_order_id) = {t}
            /\ branch # "already_processed"
            /\ Begin(w, "update",
                     Decided(t, WebhookUpdate(branch, cb_status, now), branch = "success",
                             txns[t].user_id))

ConcApproveSelect(w) ==
    \E t \in Ids :
        /\ AdminFound(Store, t)
        /\ Begin(w, "update", Decided(t, ApproveUpdate(now), TRUE, txns[t].user_id))

ConcRejectSelect(w) ==
    \E t \in Ids :
        /\ AdminFound(Store, t)
        /\ Begin(w, "update", Decided(t, RejectUpdate, FALSE, txns[t].user_id))

(* The update of the row, by id alone: .update(fields).eq("id", txn["id"]) *)
ConcUpdate(w) ==
    /\ pc[w] = "update"
    /\ txns' = SetStatus(Store, loc[w].t, loc[w].fields).txns
    /\ pc' = [pc EXCEPT ![w] = IF loc[w].activate THEN "activate_select" ELSE "idle"]
    /\ loc' = [loc EXCEPT ![w] = IF loc[w].activate THEN @ ELSE <<>>]
    /\ UNCHANGED <<listings, now, users, actCount, actLog>>

(* activate_subscription: the select of the expiry, then the update of the user *)
ConcActivateSelect(w) ==
    /\ pc[w] = "activate_select"
    /\ loc' = [loc EXCEPT ![w].current_expires = users[loc[w].u].subscription_expires_at]
    /\ pc' = [pc EXCEPT ![w] = "activate_update"]
    /\ UNCHANGED <<listings, now, users, txns, actCount, actLog>>

ConcActivateUpdate(w) ==
    /\ pc[w] = "activate_update"
    /\ users' = [users EXCEPT ![loc[w].u] =
                    [current_tier |-> loc[w].tier,
                     subscription_expires_at |-> NewExpires(loc[w].current_expires, now)]]
    /\ actCount' = [actCount EXCEPT ![loc[w].t] = @ + 1]
    /\ actLog' = actLog \cup {[t |-> loc[w].t, read |-> loc[w].current_expires]}
    /\ pc' = [pc EXCEPT ![w] = "idle"]
    /\ loc' = [loc EXCEPT ![w] = <<>>]
    /\ UNCHANGED <<listings, now, txns>>

ConcNext ==
    \E w \in Workers :
        \/ ConcInitiateLookup(w)
        \/ ConcInitiateInsert(w)
        \/ ConcConfirmSelect(w)
        \/ ConcCheckSelect(w)
        \/ ConcWebhookSelect(w)
        \/ ConcApproveSelect(w)
        \/ ConcRejectSelect(w)
        \/ ConcUpdate(w)
        \/ ConcActivateSelect(w)
        \/ ConcActivateUpdate(w)

ConcSpec == Init /\ [][ConcNext]_vars

-----------------------------------------------------------------------------
(* RenewSpec: two workers serve initiations and admin approvals, so that   *)
(* several payments of one user are activated side by side.                *)

RenewInitiateLookup(w) ==
    /\ Len(txns) < MaxRenewTxns
    /\ PendingFor(Store, ConcUser, ConcTier) = {}
    /\ Begin(w, "insert", [u |-> ConcUser, tier |-> ConcTier])

RenewInitiateInsert(w) ==
    /\ Len(txns) < MaxRenewTxns
    /\ ConcInitiateInsertRow(w)

RenewNext ==
    \E w \in Workers :
        \/ RenewInitiateLookup(w)
        \/ RenewInitiateInsert(w)
        \/ ConcApproveSelect(w)
        \/ ConcUpdate(w)
        \/ ConcActivateSelect(w)
        \/ ConcActivateUpdate(w)

RenewSpec == Init /\ [][RenewNext]_vars

-----------------------------------------------------------------------------
(* RefSpec: the references of the transactions.  A reference is the day    *)
(* and the first eight characters of the transaction's uuid4:              *)
(* f"PD-{date}-{transaction_id[:8].upper()}".  The eight characters of two *)
(* uuids may be the same; nothing in the handler compares a new reference  *)
(* with the stored ones.  The other specifications follow the runs in      *)
(* which the eight characters differ from row to row (NewRow takes the row *)
(* number for them).                                                       *)

RefPrefixes == {"A1B2C3D4", "E5F6A7B8"}

TxnRef(at, prefix) == <<at, prefix>>

RefRow(u, tier, gw_ok, id, prefix, at) ==
    [NewRow(u, tier, "orange_money", gw_ok, id, at) EXCEPT
        !.transaction_reference = TxnRef(at, prefix),
        !.orange_money_order_id = IF gw_ok THEN TxnRef(at, prefix) ELSE NoRef]

RefInitiate ==
    \E u \in Payers, tier \in Tiers \ {"free"}, gw_ok \in BOOLEAN, prefix \in RefPrefixes :
        /\ Len(txns) < MaxRefTxns
        /\ PendingFor(Store, u, tier) = {}
        /\ Apply(InsertRow(Store, RefRow(u, tier, gw_ok, Len(txns) + 1, prefix, now)))

RefConfirm == ConfirmBy(Payers, Ids)

RefAdminReject == AdminRejectOf(Ids)

RefNext ==
    \/ RefInitiate
    \/ RefConfirm
    \/ RefAdminReject
    \/ Advance

RefSpec == Init /\ [][RefNext]_vars

-----------------------------------------------------------------------------
(* EnforceSpec: RenewSpec over time, with the expiry enforcement run by    *)
(* the workers as its select and its update.                               *)

EnforceInitiateLookup(w) ==
    /\ Len(txns) < MaxEnforceTxns
    /\ PendingFor(Store, ConcUser, ConcTier) = {}
    /\ Begin(w, "insert", [u |-> ConcUser, tier |-> ConcTier])

EnforceInitiateInsert(w) ==
    /\ Len(txns) < MaxEnforceTxns
    /\ ConcInitiateInsertRow(w)

(* check_and_enforce_subscription: the select of the user; a user who is   *)
(* free or within the expiry gets the answer with no further round trip    *)
ConcEnforceSelect(w) ==
    /\ Expired(users[ConcUser], now)
    /\ Begin(w, "enforce_update", [u |-> ConcUser])

(* check_and_enforce_subscription: the update of the user, by id *)
ConcEnforceUpdate(w) ==
    /\ pc[w] = "enforce_update"
    /\ users' = [users EXCEPT ![loc[w].u] = [current_tier |-> "free",
                                             subscription_expires_at |-> NULL]]
    /\ pc' = [pc EXCEPT ![w] = "idle"]
    /\ loc' = [loc EXCEPT ![w] = <<>>]
    /\ UNCHANGED <<listings, now, txns, actCount, actLog>>

EnforceNext ==
    \/ \E w \in Workers :
        \/ EnforceInitiateLookup(w)
        \/ EnforceInitiateInsert(w)
        \/ ConcApproveSelect(w)
        \/ ConcUpdate(w)
        \/ ConcActivateSelect(w)
        \/ ConcActivateUpdate(w)
        \/ ConcEnforceSelect(w)
        \/ ConcEnforceUpdate(w)
    \/ Advance

EnforceSpec == Init /\ [][EnforceNext]_vars

-----------------------------------------------------------------------------
(* ListSpec: u1 buys a tier by manual payment, the admin approves, the     *)
(* clock moves, and the listing handlers act on car_listings.  Each        *)
(* handler is one step.                                                    *)

(* subscription_tiers.listing_limit, NULL for no limit: the limits the     *)
(* tier features advertise                                                 *)
ListingLimit(tier) ==
    CASE tier = "free" -> 1
      [] tier = "basic" -> 3
      [] tier = "premium" -> NULL

(* count of the user's rows with status active *)
ActiveCount(L, u) ==
    Cardinality({i \in DOMAIN L : L[i].user_id = u /\ L[i].status = "active"})

(* create_listing with the limit of the tier stored before the enforcement *)
CreateListingStoredTier(S, L, u, at) ==
    LET sub_info == CheckAndEnforceSubscription(S, u, at)
        current_count == ActiveCount(L, u)
        listing_limit == ListingLimit(S.users[u].current_tier)
    IN  IF listing_limit # NULL /\ current_count >= listing_limit
        THEN [store |-> sub_info.store, listings |-> L, resp |-> 403]
        ELSE [store |-> sub_info.store,
              listings |-> Append(L, [user_id |-> u, status |-> "active", created_at |-> at]),
              resp |-> 201]

(* create_listing with a limit that admits one listing more *)
CreateListingAtLimit(S, L, u, at) ==
    LET sub_info == CheckAndEnforceSubscription(S, u, at)
        current_count == ActiveCount(L, u)
        listing_limit == ListingLimit(sub_info.tier)
    IN  IF listing_limit # NULL /\ current_count > listing_limit
        THEN [store |-> sub_info.store, listings |-> L, resp |-> 403]
        ELSE [store |-> sub_info.store,
              listings |-> Append(L, [user_id |-> u, status |-> "active", created_at |-> at]),
              resp |-> 201]

(* create_listing: the enforcement, the count, the limit check, the insert *)
CreateListing(S, L, u, at) ==
    LET sub_info == CheckAndEnforceSubscription(S, u, at)
        current_count == ActiveCount(L, u)
        listing_limit == ListingLimit(sub_info.tier)
    IN  IF listing_limit # NULL /\ current_count >= listing_limit
        THEN [store |-> sub_info.store, listings |-> L, resp |-> 403]
        ELSE [store |-> sub_info.store,
              listings |-> Append(L, [user_id |-> u, status |-> "active", created_at |-> at]),
              resp |-> 201]

(* update_listing with a status among the updates *)
UpdateListing(L, id, u, new_status) ==
    IF id \in DOMAIN L /\ L[id].user_id = u
    THEN [listings |-> [L EXCEPT ![id].status = new_status], resp |-> 200]
    ELSE [listings |-> L, resp |-> 404]

(* delete_listing: the row is marked removed *)
DeleteListing(L, id, u) ==
    IF id \in DOMAIN L /\ L[id].user_id = u
    THEN [listings |-> [L EXCEPT ![id].status = "removed"], resp |-> 204]
    ELSE [listings |-> L, resp |-> 404]

ListingIds == 1..(Len(listings) + 1)
UpdateStatuses == {"active"}

ListInitiate == InitiateBy(Payers, {"manual"}, {TRUE}, MaxListTxns)

ListAdminApprove == AdminApproveOf(Ids)

ListCreate ==
    \E u \in Payers :
        LET R == CreateListing(Store, listings, u, now)
        IN  /\ Len(R.listings) <= MaxListings
            /\ users' = R.store.users
            /\ listings' = R.listings
            /\ UNCHANGED <<now, txns, actCount, actLog, pc, loc>>

ListUpdate ==
    \E u \in Users, id \in ListingIds, new_status \in UpdateStatuses :
        /\ listings' = UpdateListing(listings, id, u, new_status).listings
        /\ UNCHANGED <<now, users, txns, actCount, actLog, pc, loc>>

ListDelete ==
    \E u \in Users, id \in ListingIds :
        /\ listings' = DeleteListing(listings, id, u).listings
        /\ UNCHANGED <<now, users, txns, actCount, actLog, pc, loc>>

ListNext ==
    \/ ListInitiate
    \/ ListAdminApprove
    \/ CheckAndEnforce
    \/ Advance
    \/ ListCreate
    \/ ListUpdate
    \/ ListDelete

ListSpec == Init /\ [][ListNext]_vars

-----------------------------------------------------------------------------
(* Properties *)

AllMethods == {"orange_money", "myzaka", "manual"}
PaidTiers == Tiers \ {"free"}
Owner(t) == txns[t].user_id
Open(S, u, tier) ==
    {i \in DOMAIN S.txns : /\ S.txns[i].user_id = u
                           /\ S.txns[i].tier_id = tier
                           /\ S.txns[i].status \in NonTerminal}
Lesser(a, b) == IF a <= b THEN a ELSE b

\* C1 (ConcSpec): whatever the interleaving of the round trips of the status
\* inquiry, the webhook and the admin approval on one transaction, the
\* subscription is activated at most once for that transaction.
ActivatedAtMostOnce ==
    \A t \in Ids : actCount[t] <= 1

\* C2 (Spec): the same successful callback (matching order id and amount)
\* delivered twice in a row for a non-terminal transaction activates once: the
\* first call answers "processed", the second "already_processed" and writes
\* nothing to the transaction or the user.
WebhookIdempotent ==
    \A order_id \in OrderIds, cb_status \in SuccessStatuses, cb_amount \in CallbackAmounts :
        LET first == OrangeMoneyWebhook(Store, order_id, cb_status, cb_amount, now)
            second == OrangeMoneyWebhook(first.store, order_id, cb_status, cb_amount, now)
            found == ByOrderId(Store, order_id)
            t == First(found)
        IN  (/\ found # {}
             /\ txns[t].status \in NonTerminal
             /\ cb_amount = txns[t].amount_pula)
            => /\ first.resp = "processed"
               /\ first.store.txns[t].status = "completed"
               /\ first.store.actCount[t] = actCount[t] + 1
               /\ first.store.users[Owner(t)].subscription_expires_at
                    = NewExpires(users[Owner(t)].subscription_expires_at, now)
               /\ second.resp = "already_processed"
               /\ second.store = first.store

WebhookIdempotentWitness ==
    \E t \in Ids :
        /\ txns[t].status = "completed"
        /\ txns[t].orange_money_status = "Successfull"
        /\ actCount[t] = 1
        /\ users[Owner(t)].current_tier = txns[t].tier_id
        /\ OrangeMoneyWebhook(Store, txns[t].orange_money_order_id, "Successfull",
                              txns[t].amount_pula, now).resp = "already_processed"

\* C3 (Spec): a callback whose amount differs from the recorded amount of a
\* non-terminal transaction marks the transaction failed and activates
\* nothing, whatever its status field says, a success value included.
AmountMismatchNeverActivates ==
    \A order_id \in OrderIds, cb_status \in SuccessStatuses \cup OtherStatuses,
       cb_amount \in CallbackAmounts :
        LET R == OrangeMoneyWebhook(Store, order_id, cb_status, cb_amount, now)
            found == ByOrderId(Store, order_id)
            t == First(found)
        IN  (/\ found # {}
             /\ txns[t].status \in NonTerminal
             /\ cb_amount # txns[t].amount_pula)
            => /\ R.resp = "amount_mismatch"
               /\ R.store.txns[t].status = "failed"
               /\ R.store.users = users
               /\ R.store.actCount = actCount

AmountMismatchWitness ==
    \E t \in Ids :
        /\ txns[t].status = "failed"
        /\ txns[t].orange_money_status = "AMOUNT_MISMATCH"
        /\ actCount[t] = 0
        /\ users[Owner(t)].current_tier = "free"
        /\ users[Owner(t)].subscription_expires_at = NULL

\* C4 (EnvSpec): with every ledger operation atomic, once a transaction is
\* completed, failed or refunded no ledger operation changes its status (the
\* one change left is the refund of a completed payment, made outside the
\* ledger).
TerminalIsFinal ==
    [][\A t \in Ids : txns[t].status \in Terminal
                        => (txns'[t].status = txns[t].status \/ RefundOf(t))]_vars

TerminalIsFinalWitness ==
    \E t1 \in Ids, t2 \in Ids :
        /\ txns[t1].status = "refunded"
        /\ txns[t2].status = "failed"
        /\ txns[t2].created_at > txns[t1].completed_at

\* C5 (ConcSpec): when the round trips of confirm, status inquiry, webhook,
\* admin approval and admin rejection on one transaction interleave, a
\* transaction that has become completed or failed is never moved to another
\* status by an operation that read it earlier.
StatusNeverOverwritten ==
    [][\A t \in Ids : txns[t].status \in {"completed", "failed"}
                        => txns'[t].status = txns[t].status]_vars

\* C6 (Spec): after any sequence of operations, each (user, tier) pair has at
\* most one transaction that is pending or awaiting_verification.
OneOpenPerUserTier ==
    \A u \in Users, tier \in Tiers : Cardinality(Open(Store, u, tier)) <= 1

(* The method asked for and the gateway's answer; the gateway answers only *)
(* when the method is orange_money                                         *)
InitiateArgs ==
    {<<m, g>> \in AllMethods \X BOOLEAN : m = "orange_money" \/ g}

\* C7 (Spec): initiate called twice in a row for the same priced tier returns
\* the same transaction id both times; the second call leaves the store as it
\* was, with one pending row for the pair (the one returned), whatever
\* method it asks for.
InitiateDedup ==
    \A u \in Users, tier \in PaidTiers, a1 \in InitiateArgs :
        \A first \in {InitiateSubscription(Store, u, tier, a1[1], a1[2], now)} :
        \A a2 \in InitiateArgs :
        \A second \in {InitiateSubscription(first.store, u, tier, a2[1], a2[2], now)} :
            /\ first.resp = "pending"
            /\ second.resp = "pending"
            /\ second.tid = first.tid
            /\ second.store = first.store
            /\ Len(second.store.txns) <= Len(txns) + 1
            /\ first.tid \in DOMAIN second.store.txns
            /\ \A i \in DOMAIN second.store.txns :
                    (/\ second.store.txns[i].user_id = u
                     /\ second.store.txns[i].tier_id = tier
                     /\ second.store.txns[i].status = "pending") <=> i = first.tid

InitiateDedupWitness ==
    /\ Len(txns) = 1
    /\ txns[1].status = "pending"
    /\ txns[1].payment_method = "orange_money"
    /\ LET again == InitiateSubscription(Store, Owner(1), txns[1].tier_id, "myzaka", FALSE, now)
       IN  again.tid = 1 /\ again.store = Store

\* C8 (ClockSpec): in every reachable state a user whose tier is free has no
\* expiry, after every activation, downgrade and transaction operation.
FreeTierHasNoExpiry ==
    \A u \in Users :
        users[u].current_tier = "free" => users[u].subscription_expires_at = NULL

FreeTierHasNoExpiryWitness ==
    \E t \in Ids :
        /\ actCount[t] = 1
        /\ txns[t].completed_at < now
        /\ users[Owner(t)].current_tier = "free"
        /\ users[Owner(t)].subscription_expires_at = NULL

\* C9 (ClockSpec): every activation sets the user's tier to the purchased
\* tier, and the expiry to E + 30 days when the current expiry E is strictly
\* in the future (whatever tier E was bought for), to now + 30 days when the
\* expiry is absent or not in the future.
\* The second conjunct runs the activation of an approval at the instants
\* around E, the instant E itself included.
ActivationStacks ==
    [][/\ \A t \in Ids : actCount'[t] = actCount[t] + 1
            => LET E == users[Owner(t)].subscription_expires_at
               IN  /\ users'[Owner(t)].current_tier = txns[t].tier_id
                   /\ users'[Owner(t)].subscription_expires_at
                        = IF E # NULL /\ E > now THEN E + DefaultDuration
                          ELSE now + DefaultDuration
       /\ \A t \in Ids :
            LET E == users[Owner(t)].subscription_expires_at
            IN  AdminFound(Store, t) =>
                  \A at \in (IF E = NULL THEN {now} ELSE {E - 1, E, E + 1}) :
                     LET after == AdminApprovePayment(Store, t, at).store.users[Owner(t)]
                     IN  /\ after.current_tier = txns[t].tier_id
                         /\ after.subscription_expires_at
                              = IF E # NULL /\ E > at THEN E + DefaultDuration
                                ELSE at + DefaultDuration]_vars

ActivationStacksWitness ==
    \E t1 \in Ids, t2 \in Ids :
        /\ txns[t1].tier_id = "basic" /\ txns[t1].completed_at = 0
        /\ txns[t2].tier_id = "premium" /\ txns[t2].completed_at = 0
        /\ actCount[t1] = 1 /\ actCount[t2] = 1
        /\ Owner(t1) = Owner(t2)
        /\ users[Owner(t2)].subscription_expires_at = DefaultDuration + DefaultDuration

\* C10 (RenewSpec): no concurrent renewal is lost: when two activations for
\* one user, from two distinct transactions, both ran on an expiry in the
\* future, the expiry holds both durations: with E the expiry before them it
\* is E + 2 * 30 days (or later), never E + 30 days.
NoLostRenewal ==
    \A a \in actLog, b \in actLog :
        (/\ a.t # b.t
         /\ Owner(a.t) = Owner(b.t)
         /\ a.read # NULL /\ a.read > now
         /\ b.read # NULL /\ b.read > now)
        => users[Owner(a.t)].subscription_expires_at
             >= Lesser(a.read, b.read) + DefaultDuration + DefaultDuration

(* The instants a call is made at: the current one and those around the expiry *)
Instants(u) ==
    LET E == users[u].subscription_expires_at
    IN  {now} \cup (IF E = NULL THEN {} ELSE {E - 1, E, E + 1})

SameAnswer(first, second) ==
    /\ second.tier = first.tier
    /\ second.is_active = first.is_active
    /\ second.expires_at = first.expires_at

\* C11 as stated (ClockSpec): two consecutive checkAndEnforce calls at one
\* instant give identical results, the downgrade flag included, and the
\* second call writes nothing.
EnforceTwiceIdentical ==
    \A u \in Users : \A at \in Instants(u) :
        LET first == CheckAndEnforceSubscription(Store, u, at)
            second == CheckAndEnforceSubscription(first.store, u, at)
        IN  /\ SameAnswer(first, second)
            /\ second.was_downgraded = first.was_downgraded
            /\ second.store = first.store

\* C11 amended (ClockSpec): two consecutive checkAndEnforce calls at one
\* instant give the same effective tier, active flag and expiry; the second
\* call writes nothing and reports no downgrade; the first call writes only
\* when it downgrades, and only then do the downgrade flags differ.
EnforceIdempotent ==
    \A u \in Users : \A at \in Instants(u) :
        LET first == CheckAndEnforceSubscription(Store, u, at)
            second == CheckAndEnforceSubscription(first.store, u, at)
        IN  /\ SameAnswer(first, second)
            /\ second.store = first.store
            /\ second.was_downgraded = FALSE
            /\ first.was_downgraded <=> first.store # Store

EnforceIdempotentWitness ==
    \E u \in Users :
        /\ Expired(users[u], now)
        /\ CheckAndEnforceSubscription(Store, u, now).was_downgraded
        /\ ~CheckAndEnforceSubscription(CheckAndEnforceSubscription(Store, u, now).store,
                                        u, now).was_downgraded

\* C12 (ClockSpec): checkAndEnforce downgrades a paid user to free with no
\* expiry exactly when the instant is strictly after the expiry; at the expiry
\* or before it, and for a free user, it writes nothing and returns the stored
\* tier; the returned tier and expiry are the stored ones after the call and
\* the active flag is true.
EnforceDowngradesWhenPast ==
    \A u \in Users : \A at \in Instants(u) :
        LET R == CheckAndEnforceSubscription(Store, u, at)
            E == users[u].subscription_expires_at
            past == users[u].current_tier # "free" /\ E # NULL /\ at > E
        IN  /\ R.was_downgraded <=> past
            /\ past => R.store.users[u] = [current_tier |-> "free",
                                          subscription_expires_at |-> NULL]
            /\ past => \A v \in Users \ {u} : R.store.users[v] = users[v]
            /\ past => R.store.txns = txns
            /\ ~past => R.store = Store /\ R.tier = users[u].current_tier
            /\ R.tier = R.store.users[u].current_tier
            /\ R.expires_at = R.store.users[u].subscription_expires_at
            /\ R.is_active = TRUE

EnforceDowngradesWitness ==
    \E u \in Users :
        /\ users[u].current_tier # "free"
        /\ users[u].subscription_expires_at = DefaultDuration
        /\ now = DefaultDuration + 1
        /\ ~CheckAndEnforceSubscription(Store, u, users[u].subscription_expires_at).was_downgraded
        /\ CheckAndEnforceSubscription(Store, u, now).store.users[u].current_tier = "free"

PollResults ==
    {"success", "SUCCESS", "Success", "SUCCESSFULL", "failed", "FAILED", "EXPIRED",
     "CANCELLED", "pending", "PENDING", "INITIATED", "UNKNOWN", "", "TOKEN_ERROR"}

(* One gateway answer of each kind the handlers tell apart *)
PollKinds == {"success", "FAILED", "UNKNOWN", "TOKEN_ERROR"}
CallbackKinds == {"Successfull", "SUCCESS", "FAILED", "PENDING"}

ApprovedStep(t) ==
    LET R == AdminApprovePayment(Store, t, now)
    IN  R.resp = "completed" /\ txns' = R.store.txns /\ users' = R.store.users

RejectedStep(t) ==
    LET R == AdminRejectPayment(Store, t)
    IN  R.resp = "failed" /\ txns' = R.store.txns /\ users' = R.store.users

CallbackStep(t) ==
    /\ txns[t].orange_money_order_id # NoRef
    /\ \E cb_status \in CallbackKinds, cb_amount \in CallbackAmounts :
        LET R == OrangeMoneyWebhook(Store, txns[t].orange_money_order_id,
                                    cb_status, cb_amount, now)
        IN  /\ R.resp \in {"processed", "amount_mismatch"}
            /\ txns' = R.store.txns
            /\ users' = R.store.users

LeavesAwaiting(t) == txns'[t].status # "awaiting_verification"

\* C13 as stated (EnvSpec): a transaction in awaiting_verification changes
\* status only by a step of adminApprove (to completed) or adminReject (to
\* failed).
AwaitingOnlyByAdmin ==
    [][\A t \in Ids :
         (txns[t].status = "awaiting_verification" /\ LeavesAwaiting(t))
           => \/ ApprovedStep(t) /\ txns'[t].status = "completed"
              \/ RejectedStep(t) /\ txns'[t].status = "failed"]_vars

\* C13 amended (EnvSpec): a transaction in awaiting_verification changes
\* status only by adminApprove (to completed), adminReject (to failed) or,
\* when it is gateway-initiated, a webhook callback for its order id (success
\* with the recorded amount: completed and activated; anything else: failed).
\* User confirmation, status inquiry and the stale sweep leave it unchanged.
AwaitingByAdminOrCallback ==
    [][/\ \A t \in Ids :
            (txns[t].status = "awaiting_verification" /\ LeavesAwaiting(t))
              => \/ ApprovedStep(t) /\ txns'[t].status = "completed"
                 \/ RejectedStep(t) /\ txns'[t].status = "failed"
                 \/ CallbackStep(t) /\ txns'[t].status \in {"completed", "failed"}
       /\ \A t \in Ids : txns[t].status = "awaiting_verification" =>
            /\ \A u \in Users : ConfirmPayment(Store, u, t).store = Store
            /\ \A u \in Users, poll \in PollKinds :
                   CheckPaymentStatus(Store, u, t, poll, now).store = Store
            /\ \A at \in {now, txns[t].created_at + StaleWindow + 1} :
                   ExpireStalePayments(Store, at).store.txns[t] = txns[t]
            /\ txns[t].orange_money_order_id # NoRef =>
                 \A cb_status \in CallbackKinds, cb_amount \in CallbackAmounts :
                     LET R == OrangeMoneyWebhook(Store, txns[t].orange_money_order_id,
                                                 cb_status, cb_amount, now)
                         ok == cb_amount = txns[t].amount_pula /\ cb_status \in SuccessStatuses
                     IN  /\ R.store.txns[t].status = IF ok THEN "completed" ELSE "failed"
                         /\ R.store.actCount[t] = actCount[t] + (IF ok THEN 1 ELSE 0)]_vars

AwaitingByCallbackWitness ==
    \E t \in Ids :
        /\ txns[t].payment_method = "orange_money"
        /\ txns[t].user_payment_reference = "receipt"
        /\ txns[t].status = "completed"
        /\ txns[t].orange_money_status = "Successfull"
        /\ actCount[t] = 1

\* C14 (Spec): confirm succeeds only on a transaction that exists, is owned
\* by the caller and is pending: it records the reference and sets
\* awaiting_verification, touching nothing else; on any other transaction it
\* answers NotFound and leaves the store unchanged.
ConfirmOnlyOwnPending ==
    \A u \in Users, t \in TxnIds :
        LET R == ConfirmPayment(Store, u, t)
            ok == t \in Ids /\ txns[t].user_id = u /\ txns[t].status = "pending"
        IN  IF ok
            THEN /\ R.resp = "awaiting_verification"
                 /\ R.store.txns[t] = [txns[t] EXCEPT !.status = "awaiting_verification",
                                                      !.user_payment_reference = "receipt"]
                 /\ \A i \in Ids \ {t} : R.store.txns[i] = txns[i]
                 /\ R.store.users = users
                 /\ R.store.actCount = actCount
            ELSE R.resp = "not_found" /\ R.store = Store

ConfirmOnlyOwnPendingWitness ==
    \E t1 \in Ids, t2 \in Ids :
        /\ txns[t1].status = "awaiting_verification"
        /\ txns[t1].user_payment_reference = "receipt"
        /\ txns[t2].status = "completed"
        /\ ConfirmPayment(Store, Owner(t1), t1).resp = "not_found"
        /\ ConfirmPayment(Store, Owner(t2), t2).resp = "not_found"

\* C15 (Spec): for every transaction and every user who does not own it,
\* confirm and checkStatus answer NotFound, make no gateway poll and leave
\* every transaction and every user's subscription unchanged.
ForeignTransactionHidden ==
    \A u \in Users, t \in Ids :
        txns[t].user_id # u =>
            /\ ConfirmPayment(Store, u, t).resp = "not_found"
            /\ ConfirmPayment(Store, u, t).store = Store
            /\ \A poll \in PollResults :
                 LET R == CheckPaymentStatus(Store, u, t, poll, now)
                 IN  R.resp = "not_found" /\ ~R.polled /\ R.store = Store

ForeignTransactionWitness ==
    \E t \in Ids :
        /\ Polls(txns[t])
        /\ \E u \in Users \ {Owner(t)} :
             CheckPaymentStatus(Store, u, t, "success", now).resp = "not_found"
        /\ CheckPaymentStatus(Store, Owner(t), t, "success", now).resp = "completed"

\* C16 (Spec): user confirmation never grants the tier: confirm leaves every
\* user's tier and expiry unchanged, and a step that gives a user a paid tier
\* is a step of adminApprove, or a gateway success seen by checkStatus or by
\* handleCallback, on a transaction of that user for that tier.
PaidTierGranted(u, t) ==
    /\ Owner(t) = u
    /\ users'[u].current_tier = txns[t].tier_id
    /\ txns'[t].status = "completed"
    /\ actCount'[t] = actCount[t] + 1
    /\ \/ ApprovedStep(t)
       \/ LET R == CheckPaymentStatus(Store, u, t, "success", now)
          IN  R.resp = "completed" /\ txns' = R.store.txns /\ users' = R.store.users
       \/ \E cb_status \in SuccessStatuses :
            LET R == OrangeMoneyWebhook(Store, txns[t].orange_money_order_id,
                                        cb_status, txns[t].amount_pula, now)
            IN  R.resp = "processed" /\ txns' = R.store.txns /\ users' = R.store.users

ConfirmNeverGrants ==
    [][/\ \A u \in Users, t \in TxnIds :
            /\ ConfirmPayment(Store, u, t).store.users = users
            /\ ConfirmPayment(Store, u, t).store.actCount = actCount
       /\ \A u \in Users :
            (users'[u] # users[u] /\ users'[u].current_tier \in PaidTiers)
              => \E t \in Ids : PaidTierGranted(u, t)]_vars

ConfirmNeverGrantsWitness ==
    \E t \in Ids :
        /\ txns[t].payment_method = "manual"
        /\ txns[t].user_payment_reference = "receipt"
        /\ txns[t].status = "completed"
        /\ actCount[t] = 1
        /\ users[Owner(t)].current_tier = txns[t].tier_id

\* C17 (Spec): checkStatus polls the gateway only for an owned transaction
\* that is gateway-initiated and pending; a poll result of success completes
\* the transaction, stamps completed_at and activates its tier for the user
\* for 30 days; failed, expired or cancelled marks it failed with no
\* activation; any other result, and any transaction that is not
\* gateway-initiated or not pending, leaves transaction and user unchanged.
CheckStatusReconciles ==
    \A u \in Users, t \in Ids, poll \in PollResults :
        LET R == CheckPaymentStatus(Store, u, t, poll, now)
            row == txns[t]
            asks == /\ row.user_id = u
                    /\ row.payment_method = "orange_money"
                    /\ row.status = "pending"
            E == users[u].subscription_expires_at
        IN  /\ R.polled => asks
            /\ (asks /\ poll # "TOKEN_ERROR") => R.polled
            /\ \A i \in Ids \ {t} : R.store.txns[i] = txns[i]
            /\ IF asks /\ poll \in {"success", "SUCCESS", "Success"}
               THEN /\ R.resp = "completed"
                    /\ R.store.txns[t].status = "completed"
                    /\ R.store.txns[t].completed_at = now
                    /\ R.store.actCount[t] = actCount[t] + 1
                    /\ R.store.users[u] =
                         [current_tier |-> row.tier_id,
                          subscription_expires_at |->
                              IF E # NULL /\ E > now THEN E + 30 ELSE now + 30]
                    /\ \A v \in Users \ {u} : R.store.users[v] = users[v]
               ELSE IF asks /\ poll \in {"failed", "FAILED", "EXPIRED", "CANCELLED"}
               THEN /\ R.resp = "failed"
                    /\ R.store.txns[t].status = "failed"
                    /\ R.store.txns[t].completed_at = row.completed_at
                    /\ R.store.users = users
                    /\ R.store.actCount = actCount
               ELSE R.store = Store

CheckStatusReconcilesWitness ==
    \E t \in Ids :
        /\ txns[t].status = "completed"
        /\ txns[t].orange_money_status = "SUCCESS"
        /\ txns[t].completed_at = now
        /\ actCount[t] = 1
        /\ users[Owner(t)] = [current_tier |-> txns[t].tier_id,
                              subscription_expires_at |-> now + DefaultDuration]

\* C18 (Spec): when the gateway cannot be reached or cannot authenticate
\* during checkStatus on a pending gateway-initiated transaction, checkStatus
\* does not raise: it answers the stored status, pending, and leaves the
\* transaction and the user unchanged.
GatewayFailureFallsBack ==
    \A t \in Ids, poll \in {"UNKNOWN", "TOKEN_ERROR"} :
        Polls(txns[t]) =>
            LET R == CheckPaymentStatus(Store, Owner(t), t, poll, now)
            IN  R.resp = "pending" /\ R.store = Store

\* C19 (EnvSpec): adminApprove and adminReject called on a transaction that
\* is completed, failed or refunded, or on an unknown id, answer NotFound,
\* change no transaction and activate nothing.
AdminOnlyOnOpen ==
    \A t \in TxnIds :
        (t \notin Ids \/ txns[t].status \in Terminal) =>
            /\ AdminApprovePayment(Store, t, now).resp = "not_found"
            /\ AdminApprovePayment(Store, t, now).store = Store
            /\ AdminRejectPayment(Store, t).resp = "not_found"
            /\ AdminRejectPayment(Store, t).store = Store

AdminOnlyOnOpenWitness ==
    \E t1 \in Ids, t2 \in Ids :
        /\ txns[t1].status = "refunded"
        /\ txns[t2].status = "completed"
        /\ actCount[t1] = 1 /\ actCount[t2] = 1
        /\ AdminApprovePayment(Store, t1, now).resp = "not_found"
        /\ AdminRejectPayment(Store, t2).resp = "not_found"

\* C20 (Spec): adminApprove on a pending or awaiting_verification transaction
\* completes it, stamps completed_at and activates its tier for its owner,
\* whatever its amount, method or gateway state; adminReject on such a
\* transaction marks it failed and leaves the owner's tier and expiry as
\* they were.
AdminIsAuthoritative ==
    \A t \in Ids :
        txns[t].status \in NonTerminal =>
            LET A == AdminApprovePayment(Store, t, now)
                J == AdminRejectPayment(Store, t)
                E == users[Owner(t)].subscription_expires_at
            IN  /\ A.resp = "completed"
                /\ A.store.txns[t] = [txns[t] EXCEPT !.status = "completed",
                                                     !.completed_at = now]
                /\ A.store.actCount[t] = actCount[t] + 1
                /\ A.store.users[Owner(t)] =
                     [current_tier |-> txns[t].tier_id,
                      subscription_expires_at |->
                          IF E # NULL /\ E > now THEN E + DefaultDuration
                          ELSE now + DefaultDuration]
                /\ J.resp = "failed"
                /\ J.store.txns[t] = [txns[t] EXCEPT !.status = "failed"]
                /\ J.store.users = users
                /\ J.store.actCount = actCount

AdminIsAuthoritativeWitness ==
    \E t1 \in Ids, t2 \in Ids :
        /\ txns[t1].payment_method = "manual"
        /\ txns[t1].orange_money_order_id = NoRef
        /\ txns[t1].status = "completed"
        /\ txns[t1].completed_at = now
        /\ actCount[t1] = 1
        /\ users[Owner(t1)].current_tier = txns[t1].tier_id
        /\ txns[t2].payment_method = "orange_money"
        /\ txns[t2].user_payment_reference = "receipt"
        /\ txns[t2].orange_money_status = "none"
        /\ txns[t2].status = "failed"
        /\ actCount[t2] = 0

\* C21 (ClockSpec): the stale sweep moves to failed exactly the transactions
\* that are pending and were created more than 24 hours before, and returns
\* their number; younger pending transactions (24 hours old included), all
\* other transactions and every user's subscription are left unchanged.
SweepFailsStalePending ==
    \A at \in {now, now + StaleWindow, now + StaleWindow + 1} \cup
              {txns[i].created_at + StaleWindow : i \in Ids} \cup
              {txns[i].created_at + StaleWindow + 1 : i \in Ids} :
        LET R == ExpireStalePayments(Store, at)
            old == {i \in Ids : txns[i].status = "pending" /\ at - txns[i].created_at > 1}
        IN  /\ R.count = Cardinality(old)
            /\ DOMAIN R.store.txns = Ids
            /\ \A i \in old : R.store.txns[i] = [txns[i] EXCEPT !.status = "failed"]
            /\ \A i \in Ids \ old : R.store.txns[i] = txns[i]
            /\ R.store.users = users
            /\ R.store.actCount = actCount

SweepFailsStaleWitness ==
    \E t1 \in Ids, t2 \in Ids :
        /\ txns[t1].status = "pending" /\ txns[t1].created_at = 0
        /\ txns[t2].status = "pending" /\ txns[t2].created_at = now
        /\ now > StaleWindow
        /\ ExpireStalePayments(Store, now).count = 1
        /\ ExpireStalePayments(Store, now).store.txns[t1].status = "failed"
        /\ ExpireStalePayments(Store, now).store.txns[t2].status = "pending"

\* C22 (Spec): initiate for a tier whose price is zero answers InvalidRequest:
\* it creates no transaction, calls no gateway and leaves the store unchanged.
FreeTierNotSold ==
    \A u \in Users, tier \in Tiers, method \in AllMethods, gw_ok \in BOOLEAN :
        TierPrice(tier) = 0 =>
            LET R == InitiateSubscription(Store, u, tier, method, gw_ok, now)
            IN  /\ R.resp = "invalid_request"
                /\ R.store = Store
                /\ ~R.gateway
                /\ ~R.url

FreeTierNotSoldWitness ==
    /\ users["u1"].current_tier \in PaidTiers
    /\ InitiateSubscription(Store, "u1", "free", "orange_money", TRUE, now).resp
         = "invalid_request"
    /\ InitiateSubscription(Store, "u1", "free", "manual", TRUE, now).store = Store

\* C23 (Spec): when the gateway fails during an initiate by the gateway method
\* (and the pair has no pending transaction), initiate still answers pending:
\* it creates one pending transaction with method manual and no gateway order
\* id, and the response carries no redirect URL.
GatewayFailureDegrades ==
    \A u \in Users, tier \in PaidTiers :
        PendingFor(Store, u, tier) = {} =>
            LET R == InitiateSubscription(Store, u, tier, "orange_money", FALSE, now)
                id == Len(txns) + 1
            IN  /\ R.resp = "pending"
                /\ R.gateway
                /\ ~R.url
                /\ R.tid = id
                /\ Len(R.store.txns) = id
                /\ \A i \in Ids : R.store.txns[i] = txns[i]
                /\ R.store.txns[id].user_id = u
                /\ R.store.txns[id].tier_id = tier
                /\ R.store.txns[id].status = "pending"
                /\ R.store.txns[id].payment_method = "manual"
                /\ R.store.txns[id].orange_money_order_id = NoRef
                /\ R.store.users = users

GatewayFailureDegradesWitness ==
    \E t \in Ids :
        /\ txns[t] = NewRow(Owner(t), txns[t].tier_id, "orange_money", FALSE, t, now)
        /\ txns[t].payment_method = "manual"
        /\ txns[t].orange_money_order_id = NoRef

\* C24 (RefSpec): in every reachable state two distinct transactions have
\* distinct references (and so distinct gateway order ids), so that an order
\* id names at most one transaction.
ReferencesDistinct ==
    \A t1 \in Ids, t2 \in Ids :
        t1 # t2 =>
            /\ txns[t1].transaction_reference # txns[t2].transaction_reference
            /\ txns[t1].orange_money_order_id # NoRef
                 => txns[t1].orange_money_order_id # txns[t2].orange_money_order_id

\* C27 (EnforceSpec): expiry enforcement never erases a concurrent
\* activation: no step moves a user from a paid tier to the free tier unless
\* the subscription stored at that moment is expired.
DowngradeOnlyWhenExpired ==
    [][\A u \in Users :
         (users[u].current_tier # "free" /\ users'[u].current_tier = "free")
           => Expired(users[u], now)]_vars

\* C28 (RenewSpec): two initiate calls for one (user, tier) whose lookup and
\* insert interleave create at most one pending transaction for the pair.
OnePendingPerUserTier ==
    \A u \in Users, tier \in Tiers :
        Cardinality({i \in Ids : /\ txns[i].user_id = u
                                 /\ txns[i].tier_id = tier
                                 /\ txns[i].status = "pending"}) <= 1

\* C25 (Spec): a callback on a known, non-terminal transaction with the
\* recorded amount completes it, stamps completed_at and activates exactly
\* when its status is a success synonym in any case; every other status,
\* non-final ones such as pending included, marks it failed with no
\* activation.
CallbackMapsStatus ==
    \A t \in Ids, cb_status \in SuccessStatuses \cup OtherStatuses :
        (txns[t].orange_money_order_id # NoRef /\ txns[t].status \in NonTerminal) =>
            LET R == OrangeMoneyWebhook(Store, txns[t].orange_money_order_id, cb_status,
                                        txns[t].amount_pula, now)
                E == users[Owner(t)].subscription_expires_at
            IN  /\ R.resp = "processed"
                /\ \A i \in Ids \ {t} : R.store.txns[i] = txns[i]
                /\ IF cb_status \in SuccessStatuses
                   THEN /\ R.store.txns[t].status = "completed"
                        /\ R.store.txns[t].completed_at = now
                        /\ R.store.actCount[t] = actCount[t] + 1
                        /\ R.store.users[Owner(t)] =
                             [current_tier |-> txns[t].tier_id,
                              subscription_expires_at |-> NewExpires(E, now)]
                   ELSE /\ R.store.txns[t].status = "failed"
                        /\ R.store.txns[t].completed_at = NULL
                        /\ R.store.users = users
                        /\ R.store.actCount = actCount

CallbackMapsStatusWitness ==
    \E t1 \in Ids, t2 \in Ids :
        /\ txns[t1].status = "completed" /\ txns[t1].orange_money_status = "Successfull"
        /\ actCount[t1] = 1
        /\ txns[t2].status = "failed" /\ txns[t2].orange_money_status = "FAILED"
        /\ actCount[t2] = 0

\* C26 (ClockSpec): entitlement: with atomic operations, every completed
\* transaction has caused exactly one activation and no pending,
\* awaiting_verification or failed transaction has caused any, so the
\* activations applied to a user are as many as the user's completed
\* transactions; and an activation assigns the tier of the transaction, then
\* completed, to the transaction's owner.
Entitlement ==
    /\ [](\A t \in Ids : actCount[t] = IF txns[t].status = "completed" THEN 1 ELSE 0)
    /\ [][\A t \in Ids : actCount'[t] # actCount[t] =>
            /\ txns[t].status \in NonTerminal
            /\ txns'[t].status = "completed"
            /\ users'[Owner(t)].current_tier = txns[t].tier_id
            /\ \A v \in Users \ {Owner(t)} : users'[v] = users[v]]_vars

EntitlementWitness ==
    \E t1 \in Ids, t2 \in Ids :
        /\ Owner(t1) = Owner(t2)
        /\ txns[t1].status = "completed" /\ actCount[t1] = 1
        /\ txns[t2].status = "failed" /\ actCount[t2] = 0
        /\ txns[t2].created_at > txns[t1].completed_at
        /\ users[Owner(t1)].current_tier = "free"

\* C29 (Spec): with atomic operations a transaction has a completed_at exactly
\* when its status is completed: poll success, webhook success and admin
\* approval stamp it, and no transition to failed or awaiting_verification
\* sets it.
CompletedAtIffCompleted ==
    \A t \in Ids : (txns[t].completed_at # NULL) <=> (txns[t].status = "completed")

CompletedAtWitness ==
    \E t1 \in Ids, t2 \in Ids :
        /\ txns[t1].status = "completed" /\ txns[t1].orange_money_status = "SUCCESS"
        /\ txns[t1].completed_at = now
        /\ txns[t2].status = "awaiting_verification" /\ txns[t2].completed_at = NULL

LastDay == CHOOSE d \in Days : \A e \in Days : e <= d

\* C30 (LiveSpec): under weak fairness of the stale sweep and of the clock,
\* every pending transaction eventually leaves pending; stated for the
\* transactions created before the last instant observed, the ones that
\* outlive the staleness window within the run.
PendingEventuallyLeaves ==
    \A t \in 1..MaxClockTxns :
        (IF t \in Ids
         THEN txns[t].status = "pending" /\ txns[t].created_at < LastDay
         ELSE FALSE)
          ~> (IF t \in Ids THEN txns[t].status # "pending" ELSE FALSE)

PendingEventuallyLeavesWitness ==
    \E t \in Ids :
        /\ txns[t].created_at = 0
        /\ now = LastDay
        /\ txns[t].status = "failed"
        /\ txns[t].orange_money_status = "none"
        /\ txns[t].user_payment_reference = "none"

-----------------------------------------------------------------------------
(* The tier whose limit counts for a user at an instant: free once a paid  *)
(* tier has expired                                                        *)
EffectiveTier(u, at) ==
    IF Expired(users[u], at) THEN "free" ELSE users[u].current_tier

Admits(u, at) ==
    \/ ListingLimit(EffectiveTier(u, at)) = NULL
    \/ ActiveCount(listings, u) < ListingLimit(EffectiveTier(u, at))

(* a step that inserts a listing of u *)
CreatedStep(u) ==
    /\ Len(listings') = Len(listings) + 1
    /\ listings'[Len(listings')].user_id = u

\* C31 (ListSpec): create_listing enforces expiry first and answers 201 exactly
\* when the user's active count is below the limit of the tier left after the
\* enforcement, or that tier has no limit; a step that inserts a listing leaves
\* the user on that tier, with an active count within its limit, and is never
\* taken on the limit of a paid tier that has expired.
ListingQuota ==
    /\ [](\A u \in Users :
            LET R == CreateListing(Store, listings, u, now)
            IN  /\ R.resp = 201 <=> Admits(u, now)
                /\ R.store.users[u].current_tier = EffectiveTier(u, now)
                /\ ~Expired(R.store.users[u], now)
                /\ R.resp = 403 => R.listings = listings)
    /\ [][\A u \in Users :
            CreatedStep(u) =>
                /\ Admits(u, now)
                /\ users'[u].current_tier = EffectiveTier(u, now)
                /\ \/ ListingLimit(users'[u].current_tier) = NULL
                   \/ ActiveCount(listings', u) <= ListingLimit(users'[u].current_tier)
                /\ ActiveCount(listings', u) = ActiveCount(listings, u) + 1
                /\ Expired(users[u], now) =>
                       /\ users'[u] = [current_tier |-> "free", subscription_expires_at |-> NULL]
                       /\ ActiveCount(listings', u) <= ListingLimit("free")]_vars

ListingQuotaWitness ==
    \E u \in Users, t \in Ids, i \in DOMAIN listings :
        /\ txns[t].user_id = u
        /\ txns[t].status = "completed"
        /\ txns[t].tier_id = "premium"
        /\ now = LastDay
        /\ users[u] = [current_tier |-> "free", subscription_expires_at |-> NULL]
        /\ listings[i] = [user_id |-> u, status |-> "active", created_at |-> LastDay]
        /\ ActiveCount(listings, u) = 1
        /\ Len(listings) = MaxListings

====
